---- MODULE Spec2Model ----
(***************************************************************************)
(* Image converter: the batch controller (ImageConverterClient: the file   *)
(* list, the object URLs of the previews, Convert All) and the per-item    *)
(* converter (ImageFileCard: status, selected format, result, and the      *)
(* promise of every conversion it has started).                            *)
(*                                                                         *)
(* One action is one browser task: a user event handler run to its end, or *)
(* an image load/error event together with the promise reactions           *)
(* (microtasks) that it triggers, which run before any other task.         *)
(***************************************************************************)
EXTENDS Integers, Sequences, FiniteSets, TLC

\* ------------------------------------------------------------------ bounds
MaxUpload == 2      \* entries of one FileList
MaxHandles == 2     \* object URLs created in one behaviour
MaxTasks == 2       \* conversions started in one behaviour
MaxName == 3        \* characters of the name of a file to convert

\* -------------------------------------------------------- program constants
IcoSize == 32       \* width = 32; height = 32

\* ------------------------------------------------------------ the formats
OutputFormat == {"png", "jpeg", "webp", "bmp", "gif", "tiff", "pdf", "ico"}

\* The formats the modelled user picks in the two Select controls: the
\* default, and the one convertImage has a branch of its own for.
ChosenFormats == {"png", "pdf"}

\* The value of a missing argument and of a missing key.
Undefined == "undefined"

\* formatToMime[format]
formatToMime(format) ==
    CASE format = "jpeg" -> "image/jpeg"
      [] format = "jpg"  -> "image/jpeg"
      [] format = "png"  -> "image/png"
      [] format = "ico"  -> "image/x-icon"
      [] format = "webp" -> "image/webp"
      [] format = "bmp"  -> "image/bmp"
      [] format = "gif"  -> "image/gif"
      [] format = "tiff" -> "image/tiff"
      [] format = "pdf"  -> "application/pdf"
      [] OTHER           -> Undefined

getFileExtension(format) == IF format = "jpeg" THEN "jpg" ELSE format

\* -------------------------------------------------------------- the files
\* A File: its name as a sequence of characters (the stem and the extension
\* stand for runs of characters without '.' or '-'), the MIME type split at
\* its '/', the last-modified time and the size; and, of its bytes, the
\* width and height of the image an <img> decodes from them.
File(name, major, lastModified, size, width, height) ==
    [name |-> name, type |-> major, lastModified |-> lastModified, size |-> size,
     width |-> width, height |-> height]

PhotoPng == File(<<"photo", ".", "png">>, "image", 1, 10, 800, 600)
ScanJpg  == File(<<"scan", ".", "v2", ".", "jpg">>, "image", 2, 10, 100, 100)
NotesTxt == File(<<"notes", ".", "txt">>, "text", 1, 10, 0, 0)

FileUniverse == {PhotoPng, ScanJpg, NotesTxt}

\* The fileData of a card that is no longer on screen: what its conversion
\* makes of it reaches no state.
NoFile == File(<<>>, "", 0, 0, 0, 0)

\* A filter that lets every file through.
AnyType(file) == file.type = file.type

IsImage(file) == file.type = "image"          \* file.type.startsWith('image/')

RECURSIVE Decimal(_)
Decimal(n) ==                                  \* `${n}` of a number n >= 0
    IF n < 10 THEN <<n>> ELSE Decimal(n \div 10) \o <<n % 10>>

Digits(n) == [i \in 1..Len(Decimal(n)) |->
                 CASE Decimal(n)[i] = 0 -> "0" [] Decimal(n)[i] = 1 -> "1"
                   [] Decimal(n)[i] = 2 -> "2" [] Decimal(n)[i] = 3 -> "3"
                   [] Decimal(n)[i] = 4 -> "4" [] Decimal(n)[i] = 5 -> "5"
                   [] Decimal(n)[i] = 6 -> "6" [] Decimal(n)[i] = 7 -> "7"
                   [] Decimal(n)[i] = 8 -> "8" [] Decimal(n)[i] = 9 -> "9"]

\* `${file.name}-${file.lastModified}-${file.size}`
IdOf(file) == file.name \o <<"-">> \o Digits(file.lastModified)
                        \o <<"-">> \o Digits(file.size)

FileLists == UNION {[1..n -> FileUniverse] : n \in 0..MaxUpload}

Handles == 1..MaxHandles      \* the object URLs, in the order of their creation
TaskIds == 1..MaxTasks        \* the conversions, in the order of their start

\* ------------------------------------------------------------------ state
VARIABLES
    files,               \* useState<IFile[]>: <<[id, file, preview]>>
    nextHandle,          \* the object URL the next URL.createObjectURL returns
    objectURL,           \* objectURL[h]: the URL.revokeObjectURL calls on h, and
                         \* whether h has been the preview of an entry of files
    batchOutputFormat,   \* useState<OutputFormat>("png")
    isBatchConverting,   \* useState(false)
    card,                \* card[h]: the state of the ImageFileCard showing h
    tasks,               \* tasks[t]: the promise of conversion t
    nextTask,            \* the id of the next conversion
    batch,               \* the closure and Promise.all of the last Convert All
    toasts               \* the toast() calls of the last task, in order

vars == <<files, nextHandle, objectURL, batchOutputFormat, isBatchConverting,
          card, tasks, nextTask, batch, toasts>>

\* A data: URL, by what it encodes: the media type and the size of the raster.
DataURL(type, width, height) == [type |-> type, width |-> width, height |-> height]

\* setResult(null)
NoResult == [url |-> DataURL("", 0, 0), fileName |-> <<>>]

\* The three useState of a card at mount.
InitCard == [outputFormat |-> "png", status |-> "idle", result |-> NoResult]

NoTask == [h |-> 0, format |-> "png", st |-> "unused"]

NoBatch == [all |-> {}, awaiting |-> {}, length |-> 0, format |-> "png",
            st |-> "none", toasts |-> <<>>]

Init ==
    /\ files = <<>>
    /\ nextHandle = 1
    /\ objectURL = [h \in Handles |-> [revokes |-> 0, listed |-> FALSE]]
    /\ batchOutputFormat = "png"
    /\ isBatchConverting = FALSE
    /\ card = [h \in Handles |-> InitCard]
    /\ tasks = [t \in TaskIds |-> NoTask]
    /\ nextTask = 1
    /\ batch = NoBatch
    /\ toasts = <<>>

\* ---------------------------------------------------------------- helpers
\* Every card there is, whatever the sequence.
AllCards(s) == Handles

Range(s) == {s[i] : i \in DOMAIN s}

Max(S) == CHOOSE x \in S : \A y \in S : y <= x

\* The object URLs of the cards on screen: one card per entry of files.
Mounted == {files[i].preview : i \in DOMAIN files}

\* fileCardRefs.current.get(id): every commit runs the ref callbacks of the
\* cards in list order, each doing fileCardRefs.current.set(f.id, ref), so
\* the map holds, for an id, the last card rendered with it.
RefOf(id) == files[Max({i \in DOMAIN files : files[i].id = id})].preview

\* The toasts.
InvalidFileType ==
    [title |-> "Invalid File Type", description |-> "Please upload only image files."]
ConversionFailed(message) ==
    [title |-> "Conversion Failed", description |-> message]
BatchComplete(length, format) ==
    [title |-> "Batch Conversion Complete",
     description |-> [converted |-> length, format |-> format]]
BatchFailed ==
    [title |-> "Batch Conversion Failed",
     description |-> "Some images could not be converted."]

\* ------------------------------------------------- the batch controller
\* Array.from(incomingFiles).filter(image).map(file => ({id, file, preview})):
\* one URL.createObjectURL per image entry, the first one returning `first`.
NewFiles(incoming, first) ==
    LET images == SelectSeq(incoming, IsImage)
    IN  [i \in 1..Len(images) |->
            [id |-> IdOf(images[i]), file |-> images[i], preview |-> first + i - 1]]

\* The updater of setFiles in handleFiles.
MergeFiles(prevFiles, newFiles) ==
    LET existingIds == {prevFiles[i].id : i \in DOMAIN prevFiles}
    IN  prevFiles \o SelectSeq(newFiles, LAMBDA f : f.id \notin existingIds)

handleFiles(incoming) ==
    LET newFiles == NewFiles(incoming, nextHandle)
    IN  /\ nextHandle + Len(newFiles) - 1 <= MaxHandles
        /\ nextHandle' = nextHandle + Len(newFiles)
        /\ IF Len(newFiles) = 0
           THEN /\ toasts' = <<InvalidFileType>>
                /\ files' = files
           ELSE /\ toasts' = <<>>
                /\ files' = MergeFiles(files, newFiles)
        /\ objectURL' = [h \in Handles |->
                            IF \E i \in DOMAIN files' : files'[i].preview = h
                            THEN [objectURL[h] EXCEPT !.listed = TRUE]
                            ELSE objectURL[h]]
        /\ UNCHANGED <<batchOutputFormat, isBatchConverting, card,
                       tasks, nextTask, batch>>

\* prevFiles.find(f => f.id === id): the object URLs removeFile revokes.
FoundToRemove(prevFiles, id) ==
    LET hits == {i \in DOMAIN prevFiles : prevFiles[i].id = id}
    IN  IF hits = {} THEN {}
        ELSE {prevFiles[CHOOSE i \in hits : \A j \in hits : i <= j].preview}

\* URL.revokeObjectURL on each of hs.
Revoke(urls, hs) ==
    [h \in Handles |-> IF h \in hs THEN [urls[h] EXCEPT !.revokes = @ + 1]
                                   ELSE urls[h]]

\* A card that leaves the list is unmounted: its state is gone.
Unmount(cards, left) ==
    [h \in Handles |-> IF h \in left THEN cards[h] ELSE InitCard]

removeFile(id) ==
    /\ objectURL' = Revoke(objectURL, FoundToRemove(files, id))
    /\ files' = SelectSeq(files, LAMBDA f : f.id # id)
    /\ card' = Unmount(card, {files'[i].preview : i \in DOMAIN files'})
    /\ toasts' = <<>>
    /\ UNCHANGED <<nextHandle, batchOutputFormat, isBatchConverting, tasks,
                   nextTask, batch>>

removeAll ==
    /\ objectURL' = Revoke(objectURL, Mounted)
    /\ files' = <<>>
    /\ card' = Unmount(card, {})
    /\ toasts' = <<>>
    /\ UNCHANGED <<nextHandle, batchOutputFormat, isBatchConverting, tasks,
                   nextTask, batch>>

\* The batch Select: disabled={isBatchConverting}.
setBatchOutputFormat(v) ==
    /\ ~isBatchConverting
    /\ files # <<>>
    /\ v # batchOutputFormat                   \* onValueChange
    /\ batchOutputFormat' = v
    /\ toasts' = <<>>
    /\ UNCHANGED <<files, nextHandle, objectURL, isBatchConverting, card, tasks,
                   nextTask, batch>>

\* ------------------------------------------------------ the item converter

\* const finalFormat = format || outputFormat
FinalFormat(c, format) == IF format = Undefined THEN c.outputFormat ELSE format

\* handleConvert up to its await: setOutputFormat, setResult(null),
\* setStatus("converting").
BeginConvert(c, format) ==
    [outputFormat |-> IF format = Undefined THEN c.outputFormat ELSE format,
     status |-> "converting",
     result |-> NoResult]

\* The promise convertImage returns, after the image's event. env: the event
\* the browser fires (load or error), whether getContext gives a context, and
\* whether the encoder or the PDF library throws.
Envs == {e \in [event : {"load", "error"}, ctx : BOOLEAN, throws : BOOLEAN] :
            /\ e.event = "error" => e.ctx       \* no canvas without a load
            /\ ~e.ctx => ~e.throws}             \* no encoder without a context

\* The size of the <img> itself.
SourceSize(format, img) == [width |-> img.width, height |-> img.height]

\* let { width, height } = img; if (format === 'ico') { width = 32; height = 32 }
canvasSize(format, img) ==
    IF format = "ico" THEN [width |-> IcoSize, height |-> IcoSize]
    ELSE [width |-> img.width, height |-> img.height]

\* canvas.toDataURL(type, quality): the type asked for, PNG when none is
\* given. (A browser whose encoder lacks the type answers PNG as well; which
\* types it has is the browser's affair.)
toDataURL(type, size) ==
    DataURL(IF type = Undefined THEN "image/png" ELSE type, size.width, size.height)

convertImage(img, format, env) ==
    IF env.event = "error"
    THEN [st |-> "rejected", value |-> "Could not load image."]
    ELSE IF ~env.ctx
    THEN [st |-> "rejected", value |-> "Could not get canvas context"]
    ELSE IF format = "pdf"
    THEN IF env.throws
         THEN [st |-> "pending", value |-> ""]   \* thrown out of img.onload
         ELSE [st |-> "resolved",                \* a page of the canvas's size
               value |-> DataURL(formatToMime("pdf"), canvasSize(format, img).width,
                                 canvasSize(format, img).height)]
    ELSE IF env.throws
    THEN [st |-> "rejected", value |-> "Your browser may not support conversion."]
    ELSE [st |-> "resolved",
          value |-> toDataURL(IF format = "ico" THEN "image/png" ELSE formatToMime(format),
                              canvasSize(format, img))]

\* name.lastIndexOf('.'), counted from 1; 0 when there is none (-1 in JS).
LastIndexOfDot(name) ==
    IF \E i \in DOMAIN name : name[i] = "." 
    THEN Max({i \in DOMAIN name : name[i] = "."})
    ELSE 0

\* name.substring(0, name.lastIndexOf('.')): substring(0, -1) is "".
OriginalName(name) == SubSeq(name, 1, LastIndexOfDot(name) - 1)

\* `${originalName}.${newExtension}`
ResultFileName(name, format) ==
    OriginalName(name) \o <<".", getFileExtension(format)>>

\* handleConvert after its await, were a result that arrives after the batch
\* has failed thrown away (a fail-fast batch).
EndConvertFailFast(c, p, name, format) ==
    IF p.st = "resolved" /\ batch.st # "rejected"
    THEN [c EXCEPT !.result = [url |-> p.value, fileName |-> ResultFileName(name, format)],
                   !.status = "success"]
    ELSE IF p.st = "pending" THEN c
    ELSE [c EXCEPT !.status = "error"]

\* handleConvert after its await, on the state of its card.
EndConvert(c, p, name, format) ==
    IF p.st = "resolved"
    THEN [c EXCEPT !.result = [url |-> p.value, fileName |-> ResultFileName(name, format)],
                   !.status = "success"]
    ELSE IF p.st = "rejected"
    THEN [c EXCEPT !.status = "error"]
    ELSE c

\* A conversion that starts: img.src = dataUrl sets the load off.
NewTask(h, format) ==
    [h |-> h, format |-> format, st |-> "loading"]

\* The card's Select: disabled={isProcessing}.
setOutputFormat(h, v) ==
    /\ h \in Mounted
    /\ card[h].status # "converting"
    /\ v # card[h].outputFormat                \* onValueChange
    /\ card' = [card EXCEPT ![h].outputFormat = v]
    /\ toasts' = <<>>
    /\ UNCHANGED <<files, nextHandle, objectURL, batchOutputFormat,
                   isBatchConverting, tasks, nextTask, batch>>

\* The card's Convert button, rendered unless (status === "success" && result),
\* disabled={isProcessing}: onClick={() => handleConvert()}.
ConvertShown(c) == ~(c.status = "success" /\ c.result # NoResult)

clickConvert(h) ==
    /\ h \in Mounted
    /\ ConvertShown(card[h])
    /\ card[h].status # "converting"
    /\ nextTask <= MaxTasks
    /\ card' = [card EXCEPT ![h] = BeginConvert(@, Undefined)]
    /\ tasks' = [tasks EXCEPT
                   ![nextTask] = NewTask(h, FinalFormat(card[h], Undefined))]
    /\ nextTask' = nextTask + 1
    /\ toasts' = <<>>
    /\ UNCHANGED <<files, nextHandle, objectURL, batchOutputFormat,
                   isBatchConverting, batch>>

\* files.map(file => fileCardRefs.current.get(file.id).handleConvert(...)):
\* the card each entry of files converts.
ConvertTargets(fs) == [i \in DOMAIN fs |-> RefOf(fs[i].id)]

\* The Convert All button, disabled={isBatchConverting || files.length === 0}:
\* handleConvertAll up to its await.
handleConvertAll ==
    LET targets == ConvertTargets(files)
        started == nextTask..(nextTask + Len(files) - 1)
    IN  /\ ~isBatchConverting
        /\ Len(files) # 0
        /\ nextTask + Len(files) - 1 <= MaxTasks
        /\ isBatchConverting' = TRUE
        /\ card' = [h \in Handles |->
                       IF h \in Range(targets)
                       THEN BeginConvert(card[h], batchOutputFormat)
                       ELSE card[h]]
        /\ tasks' = [t \in TaskIds |->
                       IF t \in started
                       THEN NewTask(targets[t - nextTask + 1], batchOutputFormat)
                       ELSE tasks[t]]
        /\ nextTask' = nextTask + Len(files)
        /\ batch' = [all |-> started, awaiting |-> started,
                     length |-> Len(files), format |-> batchOutputFormat,
                     st |-> "pending", toasts |-> <<>>]
        /\ toasts' = <<>>
        /\ UNCHANGED <<files, nextHandle, objectURL, batchOutputFormat>>

\* Promise.race in the place of Promise.all: settled by the first element
\* that settles.
PromiseRace(b, t, st) ==
    IF b.st # "pending" \/ t \notin b.awaiting \/ st = "pending" THEN b
    ELSE [b EXCEPT !.st = st, !.awaiting = @ \ {t}]

\* Promise.all(conversionPromises) when its element t settles as st: rejected
\* by the first rejection, resolved by the last resolution.
PromiseAll(b, t, st) ==
    IF b.st # "pending" \/ t \notin b.awaiting \/ st = "pending" THEN b
    ELSE IF st = "rejected" THEN [b EXCEPT !.st = "rejected"]
    ELSE IF b.awaiting = {t} THEN [b EXCEPT !.st = "resolved", !.awaiting = {}]
    ELSE [b EXCEPT !.awaiting = @ \ {t}]

\* handleConvertAll after its await: the toast of the try or of the catch.
BatchToasts(b) ==
    IF b.st = "resolved" THEN <<BatchComplete(b.length, b.format)>>
    ELSE IF b.st = "rejected" THEN <<BatchFailed>>
    ELSE <<>>

\* The load or error event of the image of conversion t, and the promise
\* reactions it sets off: handleConvert's continuation on the card (a
\* setState on an unmounted card does nothing), then handleConvertAll's.
imageEvent(t, env) ==
    LET task == tasks[t]
        file == IF \E i \in DOMAIN files : files[i].preview = task.h
                THEN files[CHOOSE i \in DOMAIN files : files[i].preview = task.h].file
                ELSE NoFile
        name == file.name
        p == convertImage(file, task.format, env)
        all == PromiseAll(batch, t, p.st)
        settled == batch.st = "pending" /\ all.st # "pending"
        said == IF settled THEN BatchToasts(all) ELSE <<>>
    IN  /\ task.st = "loading"
        /\ tasks' = [tasks EXCEPT ![t].st = IF p.st = "pending" THEN "hung" ELSE p.st]
        /\ card' = [card EXCEPT ![task.h] =
                       IF task.h \in Mounted
                       THEN EndConvert(@, p, name, task.format) ELSE @]
        /\ batch' = [all EXCEPT !.toasts = @ \o said]
        /\ isBatchConverting' = IF settled THEN FALSE ELSE isBatchConverting
        /\ toasts' = (IF p.st = "rejected" THEN <<ConversionFailed(p.value)>> ELSE <<>>)
                     \o said
        /\ UNCHANGED <<files, nextHandle, objectURL, batchOutputFormat, nextTask>>

Next ==
    \/ \E incoming \in FileLists : handleFiles(incoming)
    \/ \E f \in {g \in FileUniverse : IsImage(g)} : removeFile(IdOf(f))
    \/ removeAll
    \/ \E v \in ChosenFormats : setBatchOutputFormat(v)
    \/ \E h \in Handles, v \in ChosenFormats : setOutputFormat(h, v)
    \/ \E h \in Handles : clickConvert(h)
    \/ handleConvertAll
    \/ \E t \in TaskIds, env \in Envs : imageEvent(t, env)

Spec == Init /\ [][Next]_vars

\* ----------------------------------------------- the converter of one item
\* One card and the conversions of its file, for every name, image size and
\* format: the file is on the list, and its card's handleConvert is called
\* by its button and through its ref.
SourceNames ==
    {n \in UNION {[1..k -> {"a", "."}] : k \in 1..MaxName} :
        \E i \in DOMAIN n : n[i] = "a"}

SourceSizes == {<<800, 600>>, <<100, 100>>}

SourceFiles ==
    {File(n, "image", 1, 10, s[1], s[2]) : n \in SourceNames, s \in SourceSizes}

\* The strings a caller can hand to handleConvert: the type OutputFormat is
\* gone at run time.
RequestFormats == OutputFormat \cup {"svg"}

\* The state after handleFiles of one file on the initial state.
ConvertInit ==
    \E file \in SourceFiles :
        /\ files = NewFiles(<<file>>, 1)
        /\ nextHandle = 2
        /\ objectURL = [h \in Handles |-> [revokes |-> 0, listed |-> h = 1]]
        /\ batchOutputFormat = "png"
        /\ isBatchConverting = FALSE
        /\ card = [h \in Handles |-> InitCard]
        /\ tasks = [t \in TaskIds |-> NoTask]
        /\ nextTask = 1
        /\ batch = NoBatch
        /\ toasts = <<>>

\* ref.handleConvert(format), up to its await.
refConvert(h, format) ==
    /\ h \in Mounted
    /\ nextTask <= MaxTasks
    /\ card' = [card EXCEPT ![h] = BeginConvert(@, format)]
    /\ tasks' = [tasks EXCEPT
                   ![nextTask] = NewTask(h, FinalFormat(card[h], format))]
    /\ nextTask' = nextTask + 1
    /\ toasts' = <<>>
    /\ UNCHANGED <<files, nextHandle, objectURL, batchOutputFormat,
                   isBatchConverting, batch>>

ConvertNext ==
    \/ \E h \in Handles, format \in RequestFormats : refConvert(h, format)
    \/ \E h \in Handles : clickConvert(h)
    \/ \E t \in TaskIds, env \in Envs : imageEvent(t, env)

ConvertSpec == ConvertInit /\ [][ConvertNext]_vars

\* ------------------------------------------------------------- the claims
Loading(t) == tasks[t].st = "loading"

\* The last Convert All has reported: its toast is out and its finally has run.
Reported == batch.st \in {"resolved", "rejected"}

IdentityOf(f) == <<f.file.name, f.file.lastModified, f.file.size>>

\* No two cards on screen share an id (a React key, a slot of fileCardRefs).
DistinctIds == \A i, j \in DOMAIN files : files[i].id = files[j].id => i = j

\* C1: Convert All does not report (summary toast, isBatchConverting reset)
\* while a conversion it started is still in flight. Stated for item sets
\* whose ids are distinct.
C1_ReportsAfterAllTerminal ==
    (DistinctIds /\ (Reported \/ (batch.st # "none" /\ ~isBatchConverting)))
        => \A t \in batch.all : ~Loading(t)

\* C2: every conversion attempt ends in a terminal status: an item is in
\* "converting" only while the image event of one of its conversions is still
\* to come; once the events have fired the item is in success or error.
\* Stated for item sets whose ids are distinct.
C2_EveryAttemptEndsTerminal ==
    \A h \in Mounted :
        (DistinctIds /\ card[h].status = "converting")
            => \E t \in TaskIds : tasks[t].h = h /\ Loading(t)

\* C3: an item's status changes only along idle->converting,
\* success->converting, error->converting, converting->success and
\* converting->error. Stated for item sets whose ids are distinct.
SpecTransitions ==
    {<<"idle", "converting">>, <<"success", "converting">>,
     <<"error", "converting">>, <<"converting", "success">>,
     <<"converting", "error">>}

C3_OnlySpecTransitions ==
    [][\A h \in Handles :
          (/\ DistinctIds
           /\ h \in Mounted /\ h \in Mounted'
           /\ card'[h].status # card[h].status)
              => <<card[h].status, card'[h].status>> \in SpecTransitions]_vars

\* C4: an item has a result if and only if its status is success. Stated for
\* item sets whose ids are distinct.
C4_ResultIffSuccess ==
    DistinctIds =>
        \A h \in Mounted :
            (card[h].result # NoResult) <=> (card[h].status = "success")

\* C5: the item set holds at most one item per identity (filename,
\* last-modified timestamp, byte size).
C5_OneItemPerIdentity ==
    \A i, j \in DOMAIN files :
        IdentityOf(files[i]) = IdentityOf(files[j]) => i = j

\* The numbers a batch toast states: "Converted N images" states N converted
\* and none failed; the failure toast states no number.
StatedSucceeded(n) ==
    IF n.title = "Batch Conversion Complete" THEN {n.description.converted} ELSE {}
StatedFailed(n) ==
    IF n.title = "Batch Conversion Complete" THEN {0} ELSE {}
Ended(st) == {t \in batch.all : tasks[t].st = st}

\* C6 as claimed: the summary of Convert All states how many items succeeded
\* and how many failed, the two adding up to the size of the batch and each
\* being the number of conversions that ended that way.
C6_SummaryCountsOutcomes ==
    \A i \in DOMAIN batch.toasts :
        /\ StatedSucceeded(batch.toasts[i]) = {Cardinality(Ended("resolved"))}
        /\ StatedFailed(batch.toasts[i]) = {Cardinality(Ended("rejected"))}
        /\ Cardinality(Ended("resolved")) + Cardinality(Ended("rejected")) = batch.length

\* C6 as amended: the completion toast states the number of entries of the
\* batch, and comes only when every conversion the batch started has
\* succeeded; the failure toast states no number, and comes only when a
\* conversion of the batch has failed.
C6_CompleteCountsBatch ==
    \A i \in DOMAIN batch.toasts :
        IF batch.toasts[i].title = "Batch Conversion Complete"
        THEN /\ batch.toasts[i].description.converted = batch.length
             /\ batch.length = Cardinality(batch.all)
             /\ Ended("resolved") = batch.all
        ELSE /\ batch.toasts[i] = BatchFailed
             /\ Ended("rejected") # {}

C6_Witness ==
    /\ batch.length = 2
    /\ batch.toasts = <<BatchComplete(2, "pdf")>>

\* C7: a failing conversion leaves every other conversion in flight and every
\* other card as it was, and a conversion whose decode and encode succeed
\* puts its card in success with a result, also after a sibling has failed
\* and the batch has reported.
C7_FailureLeavesSiblings ==
    [][\A t \in TaskIds :
          /\ (Loading(t) /\ tasks'[t].st = "rejected")
                => /\ \A u \in TaskIds \ {t} : tasks'[u] = tasks[u]
                   /\ \A h \in Handles \ {tasks[t].h} : card'[h] = card[h]
          /\ (Loading(t) /\ tasks'[t].st = "resolved" /\ tasks[t].h \in Mounted)
                => /\ card'[tasks[t].h].status = "success"
                   /\ card'[tasks[t].h].result # NoResult]_vars

\* A conversion of the batch has failed, the batch has reported the failure,
\* and a sibling has succeeded after that.
C7_Witness ==
    /\ batch.st = "rejected"
    /\ \E t \in batch.awaiting :
          /\ tasks[t].st = "resolved"
          /\ tasks[t].h \in Mounted
          /\ card[tasks[t].h].status = "success"
          /\ card[tasks[t].h].result # NoResult

\* C8: once every image event of a Convert All has fired, the call has made
\* exactly one summary toast: the failure toast if a conversion of the batch
\* failed, the completion toast otherwise. Stated for item sets whose ids are
\* distinct.
C8_ExactlyOneSummary ==
    (DistinctIds /\ batch.st # "none" /\ \A t \in batch.all : ~Loading(t))
        => /\ Len(batch.toasts) = 1
           /\ (batch.toasts[1] = BatchFailed) <=> (Ended("resolved") # batch.all)

\* C9: every Convert All completes and resets isBatchConverting. Only the
\* image event of a conversion the call awaits leads to the reset, so: while
\* isBatchConverting is set, such an event is still to come. Stated for item
\* sets whose ids are distinct.
C9_BatchCompletes ==
    (DistinctIds /\ isBatchConverting) => \E t \in batch.awaiting : Loading(t)

\* C10: the preview of every item that has entered the set is released
\* exactly once, when the item is removed: never while the item is in the
\* set, never twice, and not left unreleased by a removal.
C10_ReleasedOnceAtRemoval ==
    \A h \in Handles :
        objectURL[h].listed
            => objectURL[h].revokes = (IF h \in Mounted THEN 0 ELSE 1)

\* The object URLs URL.createObjectURL has returned so far.
Created == {h \in Handles : h < nextHandle}

\* C11: Remove All leaves the list empty and no object URL that an earlier
\* handleFiles created unrevoked, whatever handleFiles and removeFile calls
\* came before, a handleFiles of files that are already listed included.
C11_RemoveAllReleasesAll ==
    [][removeAll => /\ files' = <<>>
                    /\ \A h \in Created : objectURL'[h].revokes > 0]_vars

\* The input of a handleFiles call has an image among its entries.
HasImage(incoming) == \E k \in DOMAIN incoming : incoming[k].type = "image"

\* C12: handleFiles lists image files only, and only files of its input; on
\* an input without an image it makes the "Invalid File Type" toast and
\* leaves the list, its entries and their order, as it was; that toast is
\* made by no other step.
C12_InvalidFileTypeOnly ==
    [][/\ \A incoming \in FileLists :
             handleFiles(incoming)
                => /\ \A i \in DOMAIN files' :
                         /\ files'[i].file.type = "image"
                         /\ files'[i].preview \notin Mounted
                               => \E k \in DOMAIN incoming : incoming[k] = files'[i].file
                   /\ IF HasImage(incoming)
                      THEN \A n \in DOMAIN toasts' : toasts'[n].title # InvalidFileType.title
                      ELSE toasts' = <<InvalidFileType>> /\ files' = files
       /\ (\E n \in DOMAIN toasts' : toasts'[n].title = InvalidFileType.title)
             => \E incoming \in FileLists :
                   handleFiles(incoming) /\ ~HasImage(incoming)]_vars

\* The toast has been made on a list that has entries.
C12_Witness ==
    /\ toasts = <<InvalidFileType>>
    /\ files # <<>>

\* The previews of the items that have the id.
PreviewsOf(id) == {files[i].preview : i \in {j \in DOMAIN files : files[j].id = id}}

\* C13: removeFile(id) takes the item with that id out of the list and
\* revokes its preview, and leaves every other item, its preview, its card
\* and the order of the list as they were; when no item has the id, the list
\* and every preview are as they were.
C13_RemovesExactlyThatItem ==
    [][\A f \in FileUniverse :
          removeFile(IdOf(f))
             => /\ files' = SelectSeq(files, LAMBDA e : e.preview \notin PreviewsOf(IdOf(f)))
                /\ \A h \in Handles :
                      objectURL'[h].revokes =
                         objectURL[h].revokes + (IF h \in PreviewsOf(IdOf(f)) THEN 1 ELSE 0)
                /\ \A h \in Handles \ PreviewsOf(IdOf(f)) : card'[h] = card[h]]_vars

\* The name without its last extension: all of it when it has no '.'.
Basename(name) ==
    IF \E i \in DOMAIN name : name[i] = "."
    THEN SubSeq(name, 1, (CHOOSE i \in DOMAIN name :
                            /\ name[i] = "."
                            /\ \A j \in DOMAIN name : name[j] = "." => j <= i) - 1)
    ELSE name

\* 'jpg' for jpeg, the name of the format for every other format.
CanonicalExtension(format) == IF format = "jpeg" THEN "jpg" ELSE format

\* The file a card shows.
FileOf(h) == files[CHOOSE i \in DOMAIN files : files[i].preview = h].file

\* Conversion t ends in success on a card that is on screen.
Succeeds(t) ==
    /\ Loading(t)
    /\ tasks'[t].st = "resolved"
    /\ tasks[t].h \in Mounted

\* C14: the file name of the result of a conversion that succeeds is the
\* basename of the original file, a '.', and the canonical extension of the
\* format of the conversion, for names with several dots and names with no
\* dot as for the others.
C14_FileNameIsBasenameDotExtension ==
    [][\A t \in TaskIds :
          Succeeds(t)
             => card'[tasks[t].h].result.fileName =
                   Basename(FileOf(tasks[t].h).name)
                      \o <<".", CanonicalExtension(tasks[t].format)>>]_vars

\* C15: a convert request whose format is outside the eight formats fails
\* before any decoding or encoding and never gives a success: no conversion
\* (an image load, then a canvas encode) is ever started for such a format,
\* and no card is in success with a result of such a format.
C15_FormatValidated ==
    /\ \A t \in TaskIds : tasks[t].format \in OutputFormat
    /\ \A h \in Mounted :
          card[h].status = "success"
             => \E format \in OutputFormat :
                   /\ card[h].result.fileName # <<>>
                   /\ card[h].result.fileName[Len(card[h].result.fileName)]
                         = CanonicalExtension(format)

\* The name ends in '.' and the extension.
EndsWith(fileName, extension) ==
    /\ Len(fileName) >= 2
    /\ fileName[Len(fileName) - 1] = "."
    /\ fileName[Len(fileName)] = extension

\* C16: the result of a conversion that succeeds has the width and height of
\* the source image for every format but ico; for ico it is 32 by 32
\* whatever the size of the source, it is PNG-encoded, and its file name
\* ends in '.ico'.
C16_SourceSizeOrIco32 ==
    [][\A t \in TaskIds :
          Succeeds(t)
             => IF tasks[t].format = "ico"
                THEN /\ card'[tasks[t].h].result.url
                           = [type |-> "image/png", width |-> 32, height |-> 32]
                     /\ EndsWith(card'[tasks[t].h].result.fileName, "ico")
                ELSE /\ card'[tasks[t].h].result.url.width = FileOf(tasks[t].h).width
                     /\ card'[tasks[t].h].result.url.height = FileOf(tasks[t].h).height]_vars

\* An 800 by 600 source converted to ico, and one converted to jpeg.
C16_Witness ==
    \E h \in Mounted :
        /\ FileOf(h).width = 800 /\ FileOf(h).height = 600
        /\ card[h].status = "success"
        /\ \E t, u \in TaskIds :
              /\ tasks[t].h = h /\ tasks[t].format = "jpeg" /\ tasks[t].st = "resolved"
              /\ tasks[u].h = h /\ tasks[u].format = "ico" /\ tasks[u].st = "resolved"
              /\ t < u
        /\ card[h].result.url = [type |-> "image/png", width |-> 32, height |-> 32]
        /\ EndsWith(card[h].result.fileName, "ico")

\* The conversions that start or end in the step, and the cards they are of.
Stepping == {t \in TaskIds : tasks'[t] # tasks[t]}
Touched == {tasks'[t].h : t \in Stepping}

\* C17: a step of a conversion (its start, its success, its failure) changes
\* the status, selected format and result of its own item only: the list is
\* as it was, and so is the card of every item none of whose conversions
\* starts or ends in the step.
C17_ConversionTouchesOwnCard ==
    [][Stepping # {}
          => /\ files' = files
             /\ \A h \in Mounted \ Touched : card'[h] = card[h]]_vars

\* Two items: one converted to pdf with success, the other never converted
\* and still as it was mounted.
C17_Witness ==
    \E h, k \in Mounted :
        /\ h # k
        /\ card[h].status = "success"
        /\ card[h].outputFormat = "pdf"
        /\ \E t \in TaskIds : tasks[t].h = h /\ tasks[t].st = "resolved"
        /\ \A t \in TaskIds : tasks[t].h # k
        /\ card[k] = InitCard

\* The step starts a conversion of card h to the format.
Starts(h, format) ==
    \E t \in TaskIds :
        /\ tasks[t].st = "unused"
        /\ tasks'[t] = [h |-> h, format |-> format, st |-> "loading"]

\* C18: Convert All starts, for every item of the list, a conversion to the
\* batch format, whatever format was selected on the item, and the item's
\* selected format becomes the batch format; the Convert button of an item
\* starts a conversion to the format selected on the item.
C18_ConvertAllUsesBatchFormat ==
    [][/\ handleConvertAll
             => \A h \in Mounted :
                   /\ Starts(h, batchOutputFormat)
                   /\ card'[h].status = "converting"
                   /\ card'[h].outputFormat = batchOutputFormat
       /\ \A h \in Handles :
             clickConvert(h)
                => /\ Starts(h, card[h].outputFormat)
                   /\ card'[h].outputFormat = card[h].outputFormat]_vars

\* The conversions of card h whose image event is still to come.
InFlight(h) == {t \in TaskIds : tasks[t].h = h /\ Loading(t)}

\* C19: an item has at most one conversion in flight: while one is running,
\* neither its Convert button nor Convert All starts another one of it.
\* Stated for item sets whose ids are distinct.
C19_OneConversionInFlight ==
    DistinctIds => \A h \in Mounted : Cardinality(InFlight(h)) <= 1

\* The conversions that have been started on card h.
RequestsOf(h) == {t \in TaskIds : tasks[t].h = h /\ tasks[t].st # "unused"}

\* The media type of the result of a conversion to the format: PNG for ico.
PayloadType(format) == IF format = "ico" THEN "image/png" ELSE formatToMime(format)

\* C20: an item with no conversion in flight and status success shows the
\* result of the last conversion requested on it (its media type, its file
\* extension), and that conversion has succeeded: never the outcome of an
\* earlier request that ended later. Stated for item sets whose ids are
\* distinct.
C20_ResultOfLatestRequest ==
    \A h \in Mounted :
        (DistinctIds /\ InFlight(h) = {} /\ card[h].status = "success")
            => /\ RequestsOf(h) # {}
               /\ tasks[Max(RequestsOf(h))].st = "resolved"
               /\ card[h].result.url.type = PayloadType(tasks[Max(RequestsOf(h))].format)
               /\ EndsWith(card[h].result.fileName,
                           CanonicalExtension(tasks[Max(RequestsOf(h))].format))

\* C21: the preview of an item is not revoked while a conversion of the
\* item, started by its Convert button or by Convert All, is still in
\* flight: the image of every conversion in flight loads from an object URL
\* that removeFile and removeAll have left alone.
C21_NoRevokeWhileInFlight ==
    \A t \in TaskIds : Loading(t) => objectURL[tasks[t].h].revokes = 0

====
